---- MODULE Spec2Model ----
(***************************************************************************)
(* A model of the TC420 LED controller library (src/tc420/tc420.py):       *)
(* the 64-byte packet codec, the command catalog, the device channel       *)
(* (send), the program controller (time_sync, mode, mode_stop,             *)
(* mode_clear_all), the device enumerator (TC420.__init__) and the play    *)
(* engine (play, play_step, stop and the playing thread).                  *)
(*                                                                         *)
(* Python positions are 0-based and TLA+ sequences 1-based: byte k of a    *)
(* payload is payload[k + 1].  A Python exception is modelled by its       *)
(* name; "none" means no exception.                                        *)
(***************************************************************************)
EXTENDS Integers, Sequences, FiniteSets, TLC

VARIABLES
    \* ---- device channel ----
    sent,             \* exchanges on the endpoints (of the current caller operation, or of the play run)
    \* ---- caller context ----
    cpc,              \* where the caller is: "idle", "write", "read", "join", the steps
                      \* inside play and mode_stop; for a packet on its own "build",
                      \* "final", "fault", "decoded"
    cop,              \* the operation the caller is in (or was last in) and its arguments
    cpkt,             \* the packet the caller's send() is about to write, or is building
    cres,             \* what the last operation gave its caller: a value or an exception name
    \* ---- device enumerator ----
    attached,         \* the matching devices, in the order the USB backend reports them
    handles,          \* the TC420(dev_index) constructions made so far
    \* ---- play session (fields of the TC420 object) ----
    in_play,          \* self._in_play
    play_step_data,   \* self._play_step_data (None or a step)
    play_step_start,  \* self._play_step_start (None or a timestamp)
    now,              \* the host's time() in ticks
    \* ---- playing thread ----
    wk,               \* the playing threads started so far: position, locals and closure
    calls             \* the calls of the play interface made so far

vars == <<sent, cpc, cop, cpkt, cres, attached, handles,
          in_play, play_step_data, play_step_start, now, wk, calls>>

chanVars == <<sent>>
callerVars == <<cpc, cop, cpkt, cres>>
openVars == <<attached, handles>>
playVars == <<in_play, play_step_data, play_step_start, now, wk, calls>>

-----------------------------------------------------------------------------
(* Python values *)

\* Python's None, and an optional argument that was given
None == <<>>
At(p) == <<p>>

NoExc == "none"

Min(a, b) == IF a < b THEN a ELSE b
Abs(a) == IF a < 0 THEN -a ELSE a

\* A slice bound of a sequence of length n, as Python resolves it
SliceIndex(i, n) ==
    IF i < 0 THEN (IF i + n < 0 THEN 0 ELSE i + n)
    ELSE (IF i > n THEN n ELSE i)

\* s[a:b]
SliceGet(s, a, b) ==
    LET n == Len(s)
        lo == SliceIndex(a, n)
        hi == SliceIndex(b, n)
    IN IF hi <= lo THEN <<>> ELSE SubSeq(s, lo + 1, hi)

\* s[a:b] = d  (a bytearray: the slice is replaced, whatever its length)
SliceAssign(s, a, b, d) ==
    LET n == Len(s)
        lo == SliceIndex(a, n)
        hi0 == SliceIndex(b, n)
        hi == IF hi0 < lo THEN lo ELSE hi0
    IN SubSeq(s, 1, lo) \o d \o SubSeq(s, hi + 1, n)

-----------------------------------------------------------------------------
(* TC420Packet: the frame codec *)

MagicHi == 85
MagicLo == 170
TermCR == 13
TermLF == 10

CmdGeneric == 0
CmdModeStepsStop == 1
CmdModeStop == 2
CmdModeClearAll == 3
CmdTimeSync == 17
CmdModeInit == 18
CmdModeStep == 19
CmdPlayInit == 21
CmdPlaySetChannels == 22

\* TC420.OK
OK == <<0>>

\* TC420Packet.__init__ with payload None: the class's _command, an empty 64 byte payload
NewPacket(command) ==
    [ command |-> command,
      payload |-> <<MagicHi, MagicLo, command>> \o [i \in 1..59 |-> 0] \o <<TermCR, TermLF>>,
      pointer |-> 5,
      exc |-> NoExc ]

\* TC420Packet.__init__ with a payload: a received packet
PacketOf(payload) ==
    [ command |-> CmdGeneric, payload |-> payload, pointer |-> 5, exc |-> NoExc ]

\* An exception leaves a constructor or method: the statements after it do not run
Raise(pkt, e) == IF pkt.exc = NoExc THEN [pkt EXCEPT !.exc = e] ELSE pkt

\* add_string moving the pointer on at every write, with or without a position
add_string_MovesPointer(pkt, d, position) ==
    IF pkt.exc # NoExc \/ Len(d) = 0 THEN pkt
    ELSE LET pos == IF position = None THEN pkt.pointer
                    ELSE IF position[1] < 0 THEN 64 + position[1]
                    ELSE position[1]
             ptr == pkt.pointer + Len(d)
         IN IF pos + Len(d) <= 62
            THEN [pkt EXCEPT !.pointer = ptr,
                             !.payload = SliceAssign(pkt.payload, pos, pos + Len(d), d)]
            ELSE [pkt EXCEPT !.pointer = ptr, !.exc = "AssertionError"]

add_string(pkt, d, position) ==
    IF pkt.exc # NoExc \/ Len(d) = 0 THEN pkt
    ELSE LET pos == IF position = None THEN pkt.pointer
                    ELSE IF position[1] < 0 THEN 64 + position[1]
                    ELSE position[1]
             ptr == IF position = None THEN pkt.pointer + Len(d) ELSE pkt.pointer
         IN IF pos + Len(d) <= 62
            THEN [pkt EXCEPT !.pointer = ptr,
                             !.payload = SliceAssign(pkt.payload, pos, pos + Len(d), d)]
            ELSE [pkt EXCEPT !.pointer = ptr, !.exc = "AssertionError"]

\* pack("!B", d): one byte, struct.error outside 0..255
add_uchar(pkt, d, position) ==
    IF d \in 0..255 THEN add_string(pkt, <<d>>, position)
    ELSE Raise(pkt, "struct.error")

\* pack("!H", d): two bytes, big-endian, struct.error outside 0..65535
add_ushort(pkt, d, position) ==
    IF d \in 0..65535 THEN add_string(pkt, <<d \div 256, d % 256>>, position)
    ELSE Raise(pkt, "struct.error")

\* get_string with a position and a length: [exc, val, pkt]; pkt is the packet afterwards
\* (without a position the pointer moves on by the length, before the assertion)
get_string(pkt, position, length) ==
    LET p == IF position = None THEN pkt.pointer
             ELSE IF position[1] < 0 THEN 64 + position[1]
             ELSE position[1]
        moved == IF position = None THEN [pkt EXCEPT !.pointer = @ + length] ELSE pkt
    IN IF p + length <= 62
       THEN [exc |-> NoExc, val |-> SliceGet(pkt.payload, p, p + length), pkt |-> moved]
       ELSE [exc |-> "AssertionError", val |-> <<>>, pkt |-> moved]

\* unpack("!B", ...)[0] and unpack("!H", ...)[0] of a get_string
get_uchar(pkt, position) == get_string(pkt, position, 1).val[1]

\* get_ushort reading the low byte first
get_ushort_LittleEndian(pkt, position) ==
    LET b == get_string(pkt, position, 2).val IN b[2] * 256 + b[1]

get_ushort(pkt, position) ==
    LET b == get_string(pkt, position, 2).val IN b[1] * 256 + b[2]

set_data_len(pkt) ==
    LET data_len == pkt.pointer - 5
    IN IF pkt.exc # NoExc THEN pkt
       ELSE IF data_len <= 56 THEN add_ushort(pkt, data_len, At(3))
       ELSE Raise(pkt, "AssertionError")

\* the loop of calc_checksum over the bytes bs, from the running checksum; the sum modulo
\* 256 is taken half by half, which gives the loop's result with a shallow evaluation
RECURSIVE ChecksumFold(_, _)
ChecksumFold(bs, checksum) ==
    IF bs = <<>> THEN checksum
    ELSE IF Len(bs) = 1 THEN (checksum + bs[1]) % 256
    ELSE LET half == Len(bs) \div 2
         IN (ChecksumFold(SubSeq(bs, 1, half), checksum)
                + ChecksumFold(SubSeq(bs, half + 1, Len(bs)), 0)) % 256

calc_checksum(pkt) == ChecksumFold(SliceGet(pkt.payload, 0, -3), 0)

set_checksum(pkt) == add_uchar(pkt, calc_checksum(pkt), At(-3))

\* TC420Packet.__call__: the packet with its length and checksum set; its payload is what is sent
Finalize(pkt) == set_checksum(set_data_len(pkt))

\* the read-only accessors
magic(pkt) == get_string(pkt, At(0), 2).val
data_len(pkt) == get_ushort(pkt, At(3))
command(pkt) == get_uchar(pkt, At(2))
data(pkt) == get_string(pkt, At(5), data_len(pkt))
checksum(pkt) == get_uchar(pkt, At(-3))

-----------------------------------------------------------------------------
(* The command catalog *)

\* A datetime: [year, month, day, hour, minute, second]
\* TimeSyncPacket.__init__(date = None); hostnow is what datetime.now() returns
TimeSyncPacket(date, hostnow) ==
    LET d == IF date = None THEN hostnow ELSE date
        p0 == NewPacket(CmdTimeSync)
        p1 == add_ushort(p0, d.year, None)
        p2 == add_uchar(p1, d.month, None)
        p3 == add_uchar(p2, d.day, None)
        p4 == add_uchar(p3, d.hour, None)
        p5 == add_uchar(p4, d.minute, None)
    IN add_uchar(p5, d.second, None)

\* str.encode('ascii', errors='replace'): a character over 127 becomes "?"
EncodeAscii(name) == [i \in 1..Len(name) |-> IF name[i] > 127 THEN 63 ELSE name[i]]

ModeInitPacket(step_count, name, bank) ==
    IF ~(step_count > 1) THEN Raise(NewPacket(CmdModeInit), "AssertionError")
    ELSE IF ~(8 >= Len(name) /\ Len(name) > 0) THEN Raise(NewPacket(CmdModeInit), "AssertionError")
    ELSE LET p0 == NewPacket(CmdModeInit)
             p1 == add_uchar(p0, bank, None)
             p2 == add_uchar(p1, step_count, None)
         IN add_string(p2, EncodeAscii(name), None)

\* A mode step: <<[hour, minute], ch1, ch2, ch3, ch4, ch5>>
\* The loop over step_data[1:]: a negative value turns into -value - 1 and sets its flag
\* JumpShift leaving a negative value as it is
JumpShift_NoShift(v) == v

JumpShift(v) == IF v < 0 THEN -v - 1 ELSE v

RECURSIVE JumpFlags(_, _)
JumpFlags(step_data, b) ==
    IF b > 4 THEN 0
    ELSE (IF step_data[b + 2] < 0 THEN 2 ^ b ELSE 0) + JumpFlags(step_data, b + 1)

ModeStepPacket(step_data) ==
    LET sd == [i \in 1..Len(step_data) |-> IF i = 1 THEN step_data[1] ELSE JumpShift(step_data[i])]
        p0 == NewPacket(CmdModeStep)
        p1 == add_uchar(p0, sd[1].hour, None)
        p2 == add_uchar(p1, sd[1].minute, None)
        p3 == add_uchar(p2, Min(100, Abs(sd[2])), None)
        p4 == add_uchar(p3, Min(100, Abs(sd[3])), None)
        p5 == add_uchar(p4, Min(100, Abs(sd[4])), None)
        p6 == add_uchar(p5, Min(100, Abs(sd[5])), None)
        p7 == add_uchar(p6, Min(100, Abs(sd[6])), None)
    IN add_uchar(p7, JumpFlags(step_data, 0), None)

ModeStepsStopPacket == NewPacket(CmdModeStepsStop)
ModeStopPacket == NewPacket(CmdModeStop)
ModeClearAllPacket == NewPacket(CmdModeClearAll)

PlayInitPacket(name) ==
    IF ~(8 >= Len(name) /\ Len(name) > 0) THEN Raise(NewPacket(CmdPlayInit), "AssertionError")
    ELSE add_ushort(add_string(NewPacket(CmdPlayInit), EncodeAscii(name), None), 127, None)

PlaySetChannels(step_data) ==
    LET p0 == NewPacket(CmdPlaySetChannels)
        p1 == add_uchar(p0, 245, None)
        p2 == add_uchar(p1, Min(100, Abs(step_data[1])), None)
        p3 == add_uchar(p2, Min(100, Abs(step_data[2])), None)
        p4 == add_uchar(p3, Min(100, Abs(step_data[3])), None)
        p5 == add_uchar(p4, Min(100, Abs(step_data[4])), None)
        p6 == add_uchar(p5, Min(100, Abs(step_data[5])), None)
    IN add_uchar(p6, 0, None)

-----------------------------------------------------------------------------
(* Inputs of the program controller *)

\* the longest step list a caller passes to mode()
MaxSteps == 3

DateSet ==
    { [year |-> 2024, month |-> 1, day |-> 15, hour |-> 10, minute |-> 30, second |-> 45],
      [year |-> 1999, month |-> 12, day |-> 31, hour |-> 23, minute |-> 59, second |-> 59] }

\* mode names as character codes: "", "A", "ABCDEFG\xe9", "ABCDEFGHI"
NameSet ==
    { <<>>, <<65>>, <<65, 66, 67, 68, 69, 70, 71, 233>>,
      <<65, 66, 67, 68, 69, 70, 71, 72, 73>> }

BankSet == {-1, 0, 63, 64}

ModeStepSet ==
    { <<[hour |-> 0, minute |-> 0], 0, 0, 0, 0, 0>>,
      <<[hour |-> 12, minute |-> 30], 100, -1, -101, 50, -51>> }

StepLists == UNION { [1..n -> ModeStepSet] : n \in 0..MaxSteps }

\* What the device answers: 64 bytes, of which send() reads bytes 3..4 (data_len) and 5 (data)
RespFrame(hi, lo, d0) ==
    [i \in 1..64 |-> IF i = 4 THEN hi ELSE IF i = 5 THEN lo ELSE IF i = 6 THEN d0 ELSE 0]

RespSet == { RespFrame(hi, lo, d0) : hi \in {0, 1}, lo \in {0, 1}, d0 \in {0, 1} }

AckFrame == RespFrame(0, 1, 0)

-----------------------------------------------------------------------------
(* TC420.send, in the steps its blocking I/O divides it into *)

\* AckOk reading only the low byte of the data length
AckOk_LowByteOnly(resp) ==
    LET res_pkt == PacketOf(resp)
    IN get_uchar(res_pkt, At(4)) = 1 /\ get_string(res_pkt, At(5), 1).val = OK

\* line 354: res_pkt.data_len == 1 and res_pkt.data == self.OK
AckOk(resp) ==
    LET res_pkt == PacketOf(resp)
    IN data_len(res_pkt) = 1 /\ data(res_pkt).val = OK

\* lines 346-348: a response is read unless the packet is a ModeStepsStopPacket
ReadsResponse(packet) == packet.command # CmdModeStepsStop

\* lines 350-354: what send returns once the response (None when none was read) is in
SendResult(check, resp) ==
    IF check /\ resp # None THEN AckOk(resp) ELSE TRUE

\* Who is on the endpoints: the caller's context is 0, the i-th playing thread is i
Caller == 0

\* One exchange as the endpoints saw it
Exchange(frame, who) ==
    [frame |-> frame, by |-> who, read |-> FALSE, resp |-> None, fault |-> "none", res |-> "none"]

\* The exchange of a context (the caller, or worker number i) that awaits its response
InFlight(who) ==
    CHOOSE k \in 1..Len(sent) :
        /\ sent[k].by = who
        /\ \A j \in (k + 1)..Len(sent) : sent[j].by # who

BoolStr(b) == IF b THEN "True" ELSE "False"

\* The operation a caller is in: its name and arguments, and how far it got
Op(name) ==
    [ name |-> name, date |-> None, hostnow |-> None, mname |-> <<>>, steps |-> <<>>,
      bank |-> 0, check |-> TRUE, i |-> 0, cb |-> 0,
      adapter |-> None, onchange |-> FALSE, wait |-> FALSE, step |-> None,
      faulted |-> FALSE ]

\* The caller's state after a step: [cpc, cop, cpkt, cres]
Returned(op, value) == [cpc |-> "idle", cop |-> op, cpkt |-> None, cres |-> value]

\* self.send(packet): the packet is built, then written; an exception while building ends the operation
Sending(op, packet) ==
    IF packet.exc # NoExc THEN Returned(op, packet.exc)
    ELSE [cpc |-> "write", cop |-> op, cpkt |-> packet, cres |-> "none"]

\* ModeAfterSend going on to the next packet whatever send returned
ModeAfterSend_IgnoresNack(op, res) ==
    LET N == Len(op.steps)
    IN IF op.i = N + 1 THEN Returned(op, "True")
       ELSE LET done == [op EXCEPT !.cb = op.i]
            IN IF op.i < N
               THEN Sending([done EXCEPT !.i = op.i + 1], ModeStepPacket(op.steps[op.i + 1]))
               ELSE Sending([done EXCEPT !.i = N + 1], ModeStepsStopPacket)

\* TC420.mode, lines 388-398: what follows the send of the init packet (i = 0),
\* of step i (1..N) and of the steps-stop packet (i = N + 1)
ModeAfterSend(op, res) ==
    LET N == Len(op.steps)
    IN IF op.i = N + 1 THEN Returned(op, "True")
       ELSE IF ~res THEN Returned(op, "AssertionError")
       ELSE LET done == [op EXCEPT !.cb = op.i]      \* step_ready_cb(i) after step i
            IN IF op.i < N
               THEN Sending([done EXCEPT !.i = op.i + 1], ModeStepPacket(op.steps[op.i + 1]))
               ELSE Sending([done EXCEPT !.i = N + 1], ModeStepsStopPacket)

\* TC420.play, line 443: the play-init packet must have been acknowledged; lines 445-447 follow
\* PlayAfterSend without the assertion of line 443
PlayAfterSend_IgnoresNack(op, res) ==
    [cpc |-> "play_data", cop |-> op, cpkt |-> None, cres |-> "none"]

PlayAfterSend(op, res) ==
    IF ~res THEN Returned(op, "AssertionError")
    ELSE [cpc |-> "play_data", cop |-> op, cpkt |-> None, cres |-> "none"]

\* AfterSend with every method asserting the acknowledgment, as mode() does
AfterSend_AssertsAck(op, res) ==
    IF op.name = "mode" THEN ModeAfterSend(op, res)
    ELSE IF op.name = "play" THEN PlayAfterSend(op, res)
    ELSE IF res THEN Returned(op, "True")
    ELSE Returned(op, "AssertionError")

\* What the calling method does with send's return value
AfterSend(op, res) ==
    IF op.name = "mode" THEN ModeAfterSend(op, res)
    ELSE IF op.name = "play" THEN PlayAfterSend(op, res)
    ELSE Returned(op, BoolStr(res))

\* ModePrecondition without the bank assertion
ModePrecondition_NoBankCheck(name, steps, bank) ==
    Len(steps) >= 2 /\ Len(name) > 0

\* lines 380-382 of TC420.mode
ModePrecondition(name, steps, bank) ==
    Len(steps) >= 2 /\ Len(name) > 0 /\ bank < 64

SetCaller(c) ==
    /\ cpc' = c.cpc
    /\ cop' = c.cop
    /\ cpkt' = c.cpkt
    /\ cres' = c.cres

\* time_sync(date): line 366 builds TimeSyncPacket() whatever date is
time_sync(date, hostnow) ==
    /\ cpc = "idle"
    /\ sent' = <<>>
    /\ SetCaller(Sending([Op("time_sync") EXCEPT !.date = date, !.hostnow = hostnow],
                         TimeSyncPacket(None, hostnow)))
    /\ UNCHANGED <<openVars, playVars>>

mode(name, steps, bank) ==
    /\ cpc = "idle"
    /\ sent' = <<>>
    /\ LET op == [Op("mode") EXCEPT !.mname = name, !.steps = steps, !.bank = bank]
       IN IF ModePrecondition(name, steps, bank)
          THEN SetCaller(Sending(op, ModeInitPacket(Len(steps), name, bank)))
          ELSE SetCaller(Returned(op, "AssertionError"))
    /\ UNCHANGED <<openVars, playVars>>

mode_clear_all ==
    /\ cpc = "idle"
    /\ sent' = <<>>
    /\ SetCaller(Sending(Op("mode_clear_all"), ModeClearAllPacket))
    /\ UNCHANGED <<openVars, playVars>>

\* send(packet, check) called directly
RawPackets == { NewPacket(CmdGeneric), ModeStepsStopPacket }

send(packet, check) ==
    /\ cpc = "idle"
    /\ sent' = <<>>
    /\ SetCaller(Sending([Op("send") EXCEPT !.check = check], packet))
    /\ UNCHANGED <<openVars, playVars>>

\* line 344: self.out_ep.write(packet(), timeout): the write goes through or the endpoint faults
CallerWrite(ok) ==
    /\ cpc = "write"
    /\ LET p == Finalize(cpkt)
           x == Exchange(p.payload, Caller)
       IN IF p.exc # NoExc
          THEN /\ sent' = sent
               /\ SetCaller(Returned(cop, p.exc))
          ELSE IF ~ok
          THEN /\ sent' = Append(sent, [x EXCEPT !.fault = "write"])
               /\ SetCaller(Returned([cop EXCEPT !.faulted = TRUE], "USBError"))
          ELSE IF ReadsResponse(cpkt)
          THEN /\ sent' = Append(sent, x)
               /\ cpc' = "read"
               /\ UNCHANGED <<cop, cpkt, cres>>
          ELSE LET res == SendResult(cop.check, None)
               IN /\ sent' = Append(sent, [x EXCEPT !.res = BoolStr(res)])
                  /\ SetCaller(AfterSend(cop, res))
    /\ UNCHANGED <<openVars, playVars>>

\* line 348: self.in_ep.read(64, timeout): a response arrives
CallerRead(resp) ==
    /\ cpc = "read"
    /\ LET res == SendResult(cop.check, resp)
           k == InFlight(Caller)
       IN /\ sent' = [sent EXCEPT ![k].read = TRUE, ![k].resp = resp, ![k].res = BoolStr(res)]
          /\ SetCaller(AfterSend(cop, res))
    /\ UNCHANGED <<openVars, playVars>>

\* line 348: the read times out or the endpoint faults
CallerReadFault ==
    /\ cpc = "read"
    /\ sent' = [sent EXCEPT ![InFlight(Caller)].read = TRUE,
                             ![InFlight(Caller)].fault = "read"]
    /\ SetCaller(Returned([cop EXCEPT !.faulted = TRUE], "USBError"))
    /\ UNCHANGED <<openVars, playVars>>

-----------------------------------------------------------------------------
(* The program controller on an open handle *)

InitCaller ==
    /\ sent = <<>>
    /\ cpc = "idle"
    /\ cop = Op("none")
    /\ cpkt = None
    /\ cres = "none"

InitOpenIdle ==
    /\ attached = <<>>
    /\ handles = None

InitPlayIdle ==
    /\ in_play = FALSE
    /\ play_step_data = None
    /\ play_step_start = None
    /\ now = 0
    /\ wk = <<>>
    /\ calls = 0

Init ==
    /\ InitCaller
    /\ InitOpenIdle
    /\ InitPlayIdle

Next ==
    \/ \E date \in DateSet \cup {None}, hostnow \in DateSet : time_sync(date, hostnow)
    \/ \E name \in NameSet, steps \in StepLists, bank \in BankSet : mode(name, steps, bank)
    \/ mode_clear_all
    \/ \E packet \in RawPackets, check \in BOOLEAN : send(packet, check)
    \/ \E ok \in BOOLEAN : CallerWrite(ok)
    \/ \E resp \in RespSet : CallerRead(resp)
    \/ CallerReadFault

Spec == Init /\ [][Next]_vars

-----------------------------------------------------------------------------
(* Properties of the program controller, checked under Spec *)

\* The success acknowledgment as the protocol defines it: data length 1 (bytes 3..4,
\* big-endian) and data byte 0x00 (byte 5)
IsSuccessAck(resp) == resp # None /\ resp[4] * 256 + resp[5] = 1 /\ resp[6] = 0

\* The frames a complete mode() puts on the wire: init, the steps in input order, steps-stop
ModeFrames(op) ==
    <<Finalize(ModeInitPacket(Len(op.steps), op.mname, op.bank)).payload>>
    \o [k \in 1..Len(op.steps) |-> Finalize(ModeStepPacket(op.steps[k])).payload]
    \o <<Finalize(ModeStepsStopPacket).payload>>

ModeArgsValid(op) ==
    /\ Len(op.steps) >= 2
    /\ Len(op.mname) \in 1..8
    /\ op.bank \in 0..63

\* C1: mode() transmits one mode-init frame, then the mode-step frames in input order,
\* then one mode-steps-stop frame for which no read is attempted; a frame follows
\* another only if that one was acknowledged as success, so nothing is transmitted
\* after an init or a step that was not; a mode() that returns True transmitted all N + 2.
C1_ModeSequence ==
    (cop.name = "mode" /\ ModeArgsValid(cop)) =>
        LET N == Len(cop.steps)
            expected == ModeFrames(cop)
        IN /\ Len(sent) <= N + 2
           /\ \A k \in 1..Len(sent) :
                /\ sent[k].frame = expected[k]
                /\ sent[k].frame[3] = (IF k = 1 THEN CmdModeInit
                                       ELSE IF k = N + 2 THEN CmdModeStepsStop
                                       ELSE CmdModeStep)
                /\ (k = N + 2) => (~sent[k].read /\ sent[k].resp = None)
                /\ (k < Len(sent)) => (sent[k].read /\ IsSuccessAck(sent[k].resp))
           /\ (cpc = "idle" /\ Len(sent) \in 1..(N + 1) /\ sent[Len(sent)].fault = "none")
                => (~IsSuccessAck(sent[Len(sent)].resp) /\ cres = "AssertionError")
           /\ (cres = "True") => (Len(sent) = N + 2 /\ cop.cb = N)

\* C1 witness: a three-step mode() has run to its end
C1_Witness ==
    /\ cop.name = "mode" /\ cpc = "idle" /\ cres = "True"
    /\ Len(cop.steps) = 3 /\ Len(sent) = 5
    /\ cop.steps[1] # cop.steps[2]

\* C2: time_sync(date) with a date given transmits a time-sync frame whose data are the
\* seven bytes year (big-endian), month, day, hour, minute, second of that date,
\* whatever the host's clock says.
C2_TimeSyncSendsGivenDate ==
    (cop.name = "time_sync" /\ cop.date # None /\ Len(sent) >= 1) =>
        LET f == PacketOf(sent[1].frame)
            d == cop.date
        IN /\ sent[1].frame[3] = CmdTimeSync
           /\ SubSeq(sent[1].frame, 6, 12) =
                <<d.year \div 256, d.year % 256, d.month, d.day, d.hour, d.minute, d.second>>
           /\ data_len(f) = 7

\* C3: send returns True exactly when no check was asked for, or the packet was the
\* mode-steps-stop one (no read made), or the response read is the success
\* acknowledgment; on every other response it returns False and raises nothing.
C3_SendResult ==
    /\ \A k \in 1..Len(sent) :
        sent[k].res # "none" =>
            /\ sent[k].res \in {"True", "False"}
            /\ (sent[k].res = "True") <=>
                  \/ ~cop.check
                  \/ (sent[k].frame[3] = CmdModeStepsStop /\ ~sent[k].read)
                  \/ (sent[k].read /\ IsSuccessAck(sent[k].resp))
            /\ sent[k].read <=> (sent[k].frame[3] # CmdModeStepsStop)
    /\ (cop.name = "send" /\ cpc = "idle" /\ Len(sent) = 1 /\ sent[1].fault = "none")
          => cres = sent[1].res

\* C3 witness: a checked send read a response whose data length is 257 and got False
C3_Witness ==
    /\ cop.name = "send" /\ cop.check /\ cpc = "idle"
    /\ Len(sent) = 1 /\ sent[1].read
    /\ sent[1].resp = RespFrame(1, 1, 0)
    /\ cres = "False"

\* C4: when the device answers the time-sync frame with anything but the success
\* acknowledgment, time_sync returns False and raises nothing, after one write and one read.
C4_TimeSyncNack ==
    (cop.name = "time_sync" /\ cpc = "idle" /\ Len(sent) >= 1
       /\ sent[1].fault = "none" /\ ~IsSuccessAck(sent[1].resp)) =>
        /\ cres = "False"
        /\ Len(sent) = 1
        /\ sent[1].read /\ sent[1].resp \in RespSet

\* C4 witness: a time_sync whose response repeats a non-zero data byte has returned
C4_Witness ==
    /\ cop.name = "time_sync" /\ cpc = "idle"
    /\ Len(sent) = 1 /\ sent[1].read /\ sent[1].resp = RespFrame(0, 1, 1)
    /\ cres = "False"

\* C6: mode() with fewer than 2 steps, a name of length 0 or over 8, or a bank outside
\* 0..63 ends at once in an exception and transmits nothing.
C6_ModeRejectsBadArguments ==
    (cop.name = "mode" /\ ~ModeArgsValid(cop)) =>
        /\ sent = <<>>
        /\ cpc = "idle"
        /\ cres \in {"AssertionError", "struct.error"}

\* C6 witness: a mode() whose only bad argument is the bank -1 has been refused
C6_Witness ==
    /\ cop.name = "mode" /\ cpc = "idle"
    /\ cop.bank = -1 /\ Len(cop.steps) = 2 /\ Len(cop.mname) = 8
    /\ cres = "struct.error" /\ sent = <<>>

-----------------------------------------------------------------------------
(* The device enumerator: TC420.__init__(dev_index) *)

\* the most TC420 devices attached at once
MaxDevices == 3

\* the two constructions whose outcomes are compared
HandleIds == {"first", "second"}

\* A USB device is its chain of (bus, port_number) hops from the root hub down to itself:
\* dev.bus and dev.port_number are those of the last hop and dev.parent is the chain above it.
Hop(bus, port_number) == [bus |-> bus, port_number |-> port_number]

DevicePool ==
    { <<Hop(1, 0), Hop(1, 2)>>,
      <<Hop(1, 0), Hop(1, 3), Hop(1, 1)>>,
      <<Hop(1, 0), Hop(1, 4), Hop(1, 1)>>,
      <<Hop(2, 0), Hop(2, 100)>> }

Range(f) == { f[i] : i \in DOMAIN f }

\* the sequences of n different members of S
Arrangements(S, n) ==
    { q \in [1..n -> S] : \A i, j \in 1..n : i # j => q[i] # q[j] }

\* the decimal digits of n, as character codes
RECURSIVE Digits(_)
Digits(n) == IF n < 10 THEN <<48 + n>> ELSE Digits(n \div 10) \o <<48 + (n % 10)>>

\* f"{n:02}"
Format02(n) == IF n < 10 THEN <<48, 48 + n>> ELSE Digits(n)

\* usb_path(dev), lines 317-321: "bb:pp" of each hop, joined by "."
RECURSIVE usb_path(_)
usb_path(dev) ==
    LET hop == dev[Len(dev)]
        path == Format02(hop.bus) \o <<58>> \o Format02(hop.port_number)
    IN IF Len(dev) = 1 THEN path
       ELSE usb_path(SubSeq(dev, 1, Len(dev) - 1)) \o <<46>> \o path

\* a < b for Python strings
RECURSIVE StrLess(_, _)
StrLess(a, b) ==
    IF b = <<>> THEN FALSE
    ELSE IF a = <<>> THEN TRUE
    ELSE IF a[1] # b[1] THEN a[1] < b[1]
    ELSE StrLess(Tail(a), Tail(b))

\* x put into a list sorted by usb_path, after the entries whose key is not greater
RECURSIVE InsertByPath(_, _)
InsertByPath(sorted, x) ==
    IF sorted = <<>> THEN <<x>>
    ELSE IF StrLess(usb_path(x), usb_path(Head(sorted))) THEN <<x>> \o sorted
    ELSE <<Head(sorted)>> \o InsertByPath(Tail(sorted), x)

\* SortByPath leaving the list as the backend reported it
SortByPath_Unsorted(devices) == devices

\* list.sort(devices, key=usb_path), line 323: a stable sort
RECURSIVE SortByPath(_)
SortByPath(devices) ==
    IF devices = <<>> THEN <<>>
    ELSE InsertByPath(SortByPath(SubSeq(devices, 1, Len(devices) - 1)), devices[Len(devices)])

Bound(dev_index, devices, dev) ==
    [index |-> dev_index, exc |-> NoExc, dev |-> dev, first |-> devices[1]]

NotBound(dev_index, devices, e) ==
    [index |-> dev_index, exc |-> e, dev |-> None,
     first |-> IF devices = <<>> THEN None ELSE devices[1]]

\* TC420.__init__, lines 300-324: devices is what usb.core.find reports, in its order
Construct(dev_index, devices) ==
    IF dev_index = None
    THEN IF devices = <<>> THEN NotBound(dev_index, devices, "NoDeviceFoundError")
         ELSE Bound(dev_index, devices, devices[1])
    ELSE LET i == dev_index[1]
             n == Len(devices)
         IN IF devices = <<>> THEN NotBound(dev_index, devices, "NoDeviceFoundError")
            ELSE IF i >= n THEN NotBound(dev_index, devices, "NoDeviceFoundError")
            ELSE IF i >= 0 THEN Bound(dev_index, devices, SortByPath(devices)[i + 1])
            ELSE IF i + n >= 0 THEN Bound(dev_index, devices, SortByPath(devices)[i + n + 1])
            ELSE NotBound(dev_index, devices, "IndexError")

IndexSet == {None} \cup { At(i) : i \in (-(MaxDevices + 1))..(MaxDevices + 1) }

\* TC420(dev_index) is constructed
Open(h, dev_index) ==
    /\ handles[h] = None
    /\ handles' = [handles EXCEPT ![h] = Construct(dev_index, attached)]
    /\ UNCHANGED <<attached, chanVars, callerVars, playVars>>

\* the USB backend reports the same devices in another order: two neighbours change places
Reenumerate(k) ==
    /\ k + 1 <= Len(attached)
    /\ attached' = [attached EXCEPT ![k] = attached[k + 1], ![k + 1] = attached[k]]
    /\ UNCHANGED <<handles, chanVars, callerVars, playVars>>

InitOpen ==
    /\ attached \in UNION { Arrangements(DevicePool, n) : n \in 0..MaxDevices }
    /\ handles = [h \in HandleIds |-> None]
    /\ InitCaller
    /\ InitPlayIdle

NextOpen ==
    \/ \E h \in HandleIds, dev_index \in IndexSet : Open(h, dev_index)
    \/ \E k \in 1..MaxDevices : Reenumerate(k)

SpecOpen == InitOpen /\ [][NextOpen]_vars

-----------------------------------------------------------------------------
(* Properties of the device enumerator, checked under SpecOpen *)

\* how many attached devices sort before dev by their bus/port path
PathRank(dev) ==
    Cardinality({ e \in Range(attached) : StrLess(usb_path(e), usb_path(dev)) })

\* C7: TC420(index) with n devices attached raises NoDeviceFoundError for n = 0 and for
\* every index outside 0..n-1, negative ones included, binding no device; for an index in
\* 0..n-1 it binds the device at that position of the list sorted by bus/port path.
C7_OpenIndexRange ==
    \A h \in HandleIds :
        (handles[h] # None /\ handles[h].index # None) =>
            LET i == handles[h].index[1]
                n == Len(attached)
            IN IF i \in 0..(n - 1)
               THEN /\ handles[h].exc = NoExc
                    /\ handles[h].dev \in Range(attached)
                    /\ PathRank(handles[h].dev) = i
               ELSE /\ handles[h].exc = "NoDeviceFoundError"
                    /\ handles[h].dev = None

\* C8: with the same devices attached, two constructions with the same valid index bind
\* the same device, in whatever order the backend reported the devices to each.
C8_SameDeviceWhateverOrder ==
    \A g, h \in HandleIds :
        (/\ handles[g] # None /\ handles[h] # None
         /\ handles[g].index # None
         /\ handles[g].index = handles[h].index
         /\ handles[g].index[1] \in 0..(Len(attached) - 1)) =>
            /\ handles[g].exc = NoExc /\ handles[h].exc = NoExc
            /\ handles[g].dev = handles[h].dev

\* C8 witness: index 1 of three devices was bound twice, the backend reporting a
\* different device first each time, and neither time the device that was bound
C8_Witness ==
    /\ Len(attached) = 3
    /\ handles["first"] # None /\ handles["second"] # None
    /\ handles["first"].index = At(1) /\ handles["second"].index = At(1)
    /\ handles["first"].first # handles["second"].first
    /\ handles["first"].dev = handles["second"].dev
    /\ handles["first"].dev # None
    /\ handles["first"].dev # handles["first"].first
    /\ handles["first"].dev # handles["second"].first

-----------------------------------------------------------------------------
(* The play engine: play, play_step, stop, mode_stop and the playing thread *)

\* the host clock runs from 0 to MaxTime ticks
MaxTime == 1
\* the exchanges a play run may put on the endpoints
MaxFrames == 2
\* the playing threads a run may start
MaxSessions == 1
\* the calls of play, play_step, stop and mode_stop a run may make
MaxCalls == 2

\* A play step: <<duration, ch1, ch2, ch3, ch4, ch5>>
PlayStepSet == { <<2, 100, -51, 0, 0, 0>>, <<0, 0, 30, 0, 0, 0>> }

\* The adapter argument of play(): none, or one that serves a list of steps by index
\* and None past its end (the adapter of src/tc420/__main__.py)
NoAdapter == [given |-> FALSE, steps |-> <<>>]
ListAdapter(steps) == [given |-> TRUE, steps |-> steps]

CallAdapter(adapter, idx) ==
    IF idx < Len(adapter.steps) THEN adapter.steps[idx + 1] ELSE None

\* The calls of play() that are made: name, adapter, onchange_callback given, wait
PlayCall(name, adapter, onchange, wait) ==
    [name |-> name, adapter |-> adapter, onchange |-> onchange, wait |-> wait]

PlayCalls ==
    { PlayCall(<<>>, NoAdapter, FALSE, FALSE),
      PlayCall(<<80>>, NoAdapter, FALSE, FALSE),
      PlayCall(<<80>>, ListAdapter(<< <<0, 0, 30, 0, 0, 0>>, <<2, 100, -51, 0, 0, 0>> >>), TRUE, FALSE),
      PlayCall(<<80>>, ListAdapter(<< <<2, 100, -51, 0, 0, 0>> >>), TRUE, TRUE) }

PlayRespSet == { AckFrame, RespFrame(0, 1, 1) }

Zeros == <<0, 0, 0, 0, 0>>

\* The playing thread of one play() call: its position, its closure (adapter,
\* onchange_callback) and its locals.  cur_channel_values is a reference: to the list
\* it started with ("init"), to last_channel_values ("last") or to new_channel_values ("new").
\* shown is what onchange_callback last got; stopped and late record whether stop() was
\* called while the thread ran and how many frames it wrote after that; asked is the
\* index the adapter was last called with (-1 before its first call).
Worker(adapter, onchange) ==
    [ pc |-> "loop", adapter |-> adapter, onchange |-> onchange,
      idx |-> 0, last |-> Zeros, cur |-> "init", new |-> Zeros,
      step_data |-> None, elapsed_time |-> None, c |-> 0,
      exc |-> NoExc, shown |-> None, stopped |-> FALSE, late |-> 0, asked |-> -1 ]

CurValues(w) ==
    IF w.cur = "init" THEN Zeros ELSE IF w.cur = "last" THEN w.last ELSE w.new

Finished(w) == w.pc \in {"done", "dead"}

\* RoundHalfEven dropping the fraction
RoundHalfEven_Truncating(num, den) == num \div den

\* round(num / den) for den > 0: Python rounds a half to the even neighbour
RoundHalfEven(num, den) ==
    LET q == num \div den
        r == num - q * den
    IN IF 2 * r < den THEN q
       ELSE IF 2 * r > den THEN q + 1
       ELSE IF q % 2 = 0 THEN q ELSE q + 1

\* lines 485-490: the value of one channel while the step's time is running
\* (the code computes base + dcv * (elapsed / duration) in binary64 and rounds that; where
\* the exact value is a tie and the quotient is not a binary fraction, the float may fall
\* on either side of the tie, so only nearness to the exact value is relied on)
PlayValue(target, base, elapsed, duration) ==
    IF target < 0 THEN Abs(target) - 1
    ELSE RoundHalfEven(base * duration + (target - base) * elapsed, duration)

\* an exception leaves playing_thread (only KeyboardInterrupt is caught): the thread ends
Die(w, e) == [w EXCEPT !.pc = "dead", !.exc = e]

SetWorker(i, w) == wk' = [wk EXCEPT ![i] = w]

\* line 463: while self._in_play
WorkerLoop(i) ==
    /\ i \in DOMAIN wk /\ wk[i].pc = "loop"
    /\ SetWorker(i, [wk[i] EXCEPT !.pc = IF in_play THEN "fetch" ELSE "done"])
    /\ UNCHANGED <<in_play, play_step_data, play_step_start, now, chanVars, callerVars, openVars, calls>>

\* WorkerFetch going on with the iteration when the adapter returns None
WorkerFetch_IgnoresSentinel(i) ==
    /\ i \in DOMAIN wk /\ wk[i].pc = "fetch"
    /\ IF wk[i].adapter.given /\ play_step_data = None
          /\ CallAdapter(wk[i].adapter, wk[i].idx) # None
       THEN SetWorker(i, [wk[i] EXCEPT !.pc = "play_step",
                                       !.asked = wk[i].idx,
                                       !.step_data = CallAdapter(wk[i].adapter, wk[i].idx)])
       ELSE SetWorker(i, [wk[i] EXCEPT !.pc = "has"])
    /\ UNCHANGED <<in_play, play_step_data, play_step_start, now, chanVars, callerVars,
                   openVars, calls>>

\* lines 465-468: the adapter is asked for the next step when none is pending
WorkerFetch(i) ==
    /\ i \in DOMAIN wk /\ wk[i].pc = "fetch"
    /\ IF wk[i].adapter.given /\ play_step_data = None
       THEN LET step_data == CallAdapter(wk[i].adapter, wk[i].idx)
                w == [wk[i] EXCEPT !.asked = wk[i].idx]
            IN IF step_data = None
               THEN SetWorker(i, [w EXCEPT !.pc = "done"])
               ELSE SetWorker(i, [w EXCEPT !.pc = "play_step", !.step_data = step_data])
       ELSE SetWorker(i, [wk[i] EXCEPT !.pc = "has"])
    /\ UNCHANGED <<in_play, play_step_data, play_step_start, now, chanVars, callerVars, openVars, calls>>

\* line 469 into play_step, lines 419-420: the assertion and the new target
WorkerPlayStep(i) ==
    /\ i \in DOMAIN wk /\ wk[i].pc = "play_step"
    /\ IF in_play
       THEN /\ play_step_data' = wk[i].step_data
            /\ SetWorker(i, [wk[i] EXCEPT !.pc = "play_step_start"])
       ELSE /\ SetWorker(i, Die(wk[i], "AssertionError"))
            /\ UNCHANGED play_step_data
    /\ UNCHANGED <<in_play, play_step_start, now, chanVars, callerVars, openVars, calls>>

\* line 421
WorkerPlayStepStart(i) ==
    /\ i \in DOMAIN wk /\ wk[i].pc = "play_step_start"
    /\ play_step_start' = At(now)
    /\ SetWorker(i, [wk[i] EXCEPT !.pc = "has"])
    /\ UNCHANGED <<in_play, play_step_data, now, chanVars, callerVars, openVars, calls>>

\* line 471: if self._play_step_data is not None
WorkerHas(i) ==
    /\ i \in DOMAIN wk /\ wk[i].pc = "has"
    /\ SetWorker(i, [wk[i] EXCEPT !.pc = IF play_step_data # None THEN "elapsed" ELSE "loop"])
    /\ UNCHANGED <<in_play, play_step_data, play_step_start, now, chanVars, callerVars, openVars, calls>>

\* line 473: elapsed_time = timestamp() - self._play_step_start
WorkerElapsed(i) ==
    /\ i \in DOMAIN wk /\ wk[i].pc = "elapsed"
    /\ IF play_step_start = None
       THEN SetWorker(i, Die(wk[i], "TypeError"))
       ELSE SetWorker(i, [wk[i] EXCEPT !.pc = "timer", !.elapsed_time = now - play_step_start[1]])
    /\ UNCHANGED <<in_play, play_step_data, play_step_start, now, chanVars, callerVars, openVars, calls>>

\* line 476: if elapsed_time >= self._play_step_data[0]
WorkerTimer(i) ==
    /\ i \in DOMAIN wk /\ wk[i].pc = "timer"
    /\ IF play_step_data = None
       THEN SetWorker(i, Die(wk[i], "TypeError"))
       ELSE IF wk[i].elapsed_time >= play_step_data[1]
       THEN SetWorker(i, [wk[i] EXCEPT !.pc = "commit"])
       ELSE SetWorker(i, [wk[i] EXCEPT !.pc = "calc", !.c = 0])
    /\ UNCHANGED <<in_play, play_step_data, play_step_start, now, chanVars, callerVars, openVars, calls>>

\* lines 477-479: the target becomes the baseline and the current values
WorkerCommit(i) ==
    /\ i \in DOMAIN wk /\ wk[i].pc = "commit"
    /\ IF play_step_data = None
       THEN SetWorker(i, Die(wk[i], "TypeError"))
       ELSE SetWorker(i, [wk[i] EXCEPT !.pc = "clear",
                                       !.last = SubSeq(play_step_data, 2, 6),
                                       !.cur = "last",
                                       !.idx = wk[i].idx + 1])
    /\ UNCHANGED <<in_play, play_step_data, play_step_start, now, chanVars, callerVars, openVars, calls>>

\* line 480: self._play_step_data = None
WorkerClear(i) ==
    /\ i \in DOMAIN wk /\ wk[i].pc = "clear"
    /\ play_step_data' = None
    /\ SetWorker(i, [wk[i] EXCEPT !.pc = "send"])
    /\ UNCHANGED <<in_play, play_step_start, now, chanVars, callerVars, openVars, calls>>

\* lines 484-493: channel c of the loop (its reads of the target taken together), and
\* after channel 4 the comparison that makes new_channel_values the current list.
\* A target cleared meanwhile is not subscriptable, and one replaced by a step of
\* duration 0 divides by zero.
WorkerCalc(i) ==
    /\ i \in DOMAIN wk /\ wk[i].pc = "calc"
    /\ IF play_step_data = None
       THEN SetWorker(i, Die(wk[i], "TypeError"))
       ELSE IF play_step_data[1] = 0 /\ play_step_data[wk[i].c + 2] >= 0
       THEN SetWorker(i, Die(wk[i], "ZeroDivisionError"))
       ELSE LET w == wk[i]
                v == PlayValue(play_step_data[w.c + 2], w.last[w.c + 1],
                               w.elapsed_time, play_step_data[1])
                w1 == [w EXCEPT !.new[w.c + 1] = v]
            IN IF w.c < 4
               THEN SetWorker(i, [w1 EXCEPT !.c = w.c + 1])
               ELSE SetWorker(i, [w1 EXCEPT !.pc = "send",
                                            !.cur = IF w1.new # CurValues(w1) THEN "new" ELSE w.cur])
    /\ UNCHANGED <<in_play, play_step_data, play_step_start, now, chanVars, callerVars, openVars, calls>>

\* lines 496-500 and 344: the callback, then the play-set-channels packet is written
WorkerSend(i, ok) ==
    /\ i \in DOMAIN wk /\ wk[i].pc = "send"
    /\ Len(sent) < MaxFrames
    /\ LET w == wk[i]
           values == CurValues(w)
           p == Finalize(PlaySetChannels(values))
           x == Exchange(p.payload, i)
           w1 == [w EXCEPT !.shown = IF w.onchange
                                     THEN [idx |-> w.idx, elapsed_time |-> w.elapsed_time,
                                           values |-> values]
                                     ELSE w.shown,
                           !.late = IF w.stopped THEN w.late + 1 ELSE w.late]
       IN IF ok
          THEN /\ sent' = Append(sent, x)
               /\ SetWorker(i, [w1 EXCEPT !.pc = "recv"])
          ELSE /\ sent' = Append(sent, [x EXCEPT !.fault = "write"])
               /\ SetWorker(i, Die(w1, "USBError"))
    /\ UNCHANGED <<in_play, play_step_data, play_step_start, now, callerVars, openVars, calls>>

\* lines 348-359: the response is read; its check's result is not used by the thread
WorkerRecv(i, resp) ==
    /\ i \in DOMAIN wk /\ wk[i].pc = "recv"
    /\ LET k == InFlight(i)
       IN sent' = [sent EXCEPT ![k].read = TRUE, ![k].resp = resp,
                               ![k].res = BoolStr(SendResult(TRUE, resp))]
    /\ SetWorker(i, [wk[i] EXCEPT !.pc = "loop"])
    /\ UNCHANGED <<in_play, play_step_data, play_step_start, now, callerVars, openVars, calls>>

\* line 348: the read times out or the endpoint faults
WorkerRecvFault(i) ==
    /\ i \in DOMAIN wk /\ wk[i].pc = "recv"
    /\ LET k == InFlight(i)
       IN sent' = [sent EXCEPT ![k].read = TRUE, ![k].fault = "read"]
    /\ SetWorker(i, Die(wk[i], "USBError"))
    /\ UNCHANGED <<in_play, play_step_data, play_step_start, now, callerVars, openVars, calls>>

\* stop() reaches the threads that are running: they are marked
MarkStopped(ws) ==
    [i \in DOMAIN ws |-> IF Finished(ws[i]) THEN ws[i] ELSE [ws[i] EXCEPT !.stopped = TRUE]]

\* PlayPrecondition without the assertion of line 439
PlayPrecondition_NoRunningCheck(name) == Len(name) > 0

\* lines 439-440 of TC420.play
PlayPrecondition(name) == ~in_play /\ Len(name) > 0

\* TC420.play, lines 439-442, as one of at most limit calls
PlayWithin(limit, name, adapter, onchange, wait) ==
    /\ cpc = "idle"
    /\ calls < limit
    /\ calls' = calls + 1
    /\ LET op == [Op("play") EXCEPT !.mname = name, !.adapter = adapter,
                                    !.onchange = onchange, !.wait = wait]
       IN IF PlayPrecondition(name)
          THEN /\ Len(sent) < MaxFrames
               /\ SetCaller(Sending(op, PlayInitPacket(name)))
          ELSE SetCaller(Returned(op, "AssertionError"))
    /\ UNCHANGED <<in_play, play_step_data, play_step_start, now, wk, chanVars, openVars>>

play(name, adapter, onchange, wait) == PlayWithin(MaxCalls, name, adapter, onchange, wait)

\* line 445
PlayClearData ==
    /\ cpc = "play_data"
    /\ play_step_data' = None
    /\ cpc' = "play_start"
    /\ UNCHANGED <<cop, cpkt, cres, in_play, play_step_start, now, wk, chanVars, openVars, calls>>

\* line 446
PlayClearStart ==
    /\ cpc = "play_start"
    /\ play_step_start' = None
    /\ cpc' = "play_launch"
    /\ UNCHANGED <<cop, cpkt, cres, in_play, play_step_data, now, wk, chanVars, openVars, calls>>

\* lines 447-519: the flag is set and the thread started; without wait, play returns True
\* (the thread is one of at most limit)
LaunchWithin(limit) ==
    /\ cpc = "play_launch"
    /\ Len(wk) < limit
    /\ in_play' = TRUE
    /\ wk' = Append(wk, Worker(cop.adapter, cop.onchange))
    /\ IF cop.wait
       THEN /\ cpc' = "join"
            /\ UNCHANGED <<cop, cpkt, cres>>
       ELSE SetCaller(Returned(cop, "True"))
    /\ UNCHANGED <<play_step_data, play_step_start, now, chanVars, openVars, calls>>

PlayLaunch == LaunchWithin(MaxSessions)

\* lines 510-512 and 519: t.join() returns once the thread has ended, however it ended
JoinReturn ==
    /\ cpc = "join"
    /\ Finished(wk[Len(wk)])
    /\ SetCaller(Returned(cop, "True"))
    /\ UNCHANGED <<chanVars, openVars, playVars>>

\* lines 513-515: KeyboardInterrupt reaches the caller in t.join(); it calls self.stop()
JoinInterrupted ==
    /\ cpc = "join"
    /\ IF in_play
       THEN /\ in_play' = FALSE
            /\ wk' = MarkStopped(wk)
            /\ cpc' = "join_interrupted"
            /\ UNCHANGED <<cop, cpkt, cres>>
       ELSE /\ SetCaller(Returned(cop, "AssertionError"))
            /\ UNCHANGED <<in_play, wk>>
    /\ UNCHANGED <<play_step_data, play_step_start, now, chanVars, openVars, calls>>

\* lines 516-517: the second join, then the interrupt goes on to play's caller
JoinAfterInterrupt ==
    /\ cpc = "join_interrupted"
    /\ Finished(wk[Len(wk)])
    /\ SetCaller(Returned(cop, "KeyboardInterrupt"))
    /\ UNCHANGED <<chanVars, openVars, playVars>>

\* TC420.play_step called by the caller, lines 419-420
PlayStepWithin(limit, step_data) ==
    /\ cpc = "idle"
    /\ calls < limit
    /\ calls' = calls + 1
    /\ LET op == [Op("play_step") EXCEPT !.step = step_data]
       IN IF in_play
          THEN /\ play_step_data' = step_data
               /\ cpc' = "play_step_start"
               /\ cop' = op
               /\ cres' = "none"
               /\ UNCHANGED cpkt
          ELSE /\ SetCaller(Returned(op, "AssertionError"))
               /\ UNCHANGED play_step_data
    /\ UNCHANGED <<in_play, play_step_start, now, wk, chanVars, openVars>>

play_step(step_data) == PlayStepWithin(MaxCalls, step_data)

\* line 421-422
PlayStepStart ==
    /\ cpc = "play_step_start"
    /\ play_step_start' = At(now)
    /\ SetCaller(Returned(cop, "True"))
    /\ UNCHANGED <<in_play, play_step_data, now, wk, chanVars, openVars, calls>>

\* TC420.stop, lines 521-523: it returns at once, without joining the thread
StopWithin(limit) ==
    /\ cpc = "idle"
    /\ calls < limit
    /\ calls' = calls + 1
    /\ IF in_play
       THEN /\ in_play' = FALSE
            /\ wk' = MarkStopped(wk)
            /\ SetCaller(Returned(Op("stop"), "None"))
       ELSE /\ SetCaller(Returned(Op("stop"), "AssertionError"))
            /\ UNCHANGED <<in_play, wk>>
    /\ UNCHANGED <<play_step_data, play_step_start, now, chanVars, openVars>>

stop == StopWithin(MaxCalls)

\* TC420.mode_stop, line 404
mode_stop ==
    /\ cpc = "idle"
    /\ calls < MaxCalls
    /\ calls' = calls + 1
    /\ Len(sent) < MaxFrames
    /\ in_play' = FALSE
    /\ cpc' = "mode_stop_data"
    /\ cop' = Op("mode_stop")
    /\ cres' = "none"
    /\ UNCHANGED <<cpkt, play_step_data, play_step_start, now, wk, chanVars, openVars>>

\* line 405
ModeStopClearData ==
    /\ cpc = "mode_stop_data"
    /\ play_step_data' = None
    /\ cpc' = "mode_stop_start"
    /\ UNCHANGED <<cop, cpkt, cres, in_play, play_step_start, now, wk, chanVars, openVars, calls>>

\* lines 406-407
ModeStopClearStart ==
    /\ cpc = "mode_stop_start"
    /\ play_step_start' = None
    /\ SetCaller(Sending(cop, ModeStopPacket))
    /\ UNCHANGED <<in_play, play_step_data, now, wk, chanVars, openVars, calls>>

\* the host clock advances
Tick ==
    /\ now < MaxTime
    /\ now' = now + 1
    /\ UNCHANGED <<in_play, play_step_data, play_step_start, wk, chanVars, callerVars, openVars, calls>>

InitPlay ==
    /\ InitCaller
    /\ InitOpenIdle
    /\ InitPlayIdle

WorkerNext(i) ==
    \/ WorkerLoop(i)
    \/ WorkerFetch(i)
    \/ WorkerPlayStep(i)
    \/ WorkerPlayStepStart(i)
    \/ WorkerHas(i)
    \/ WorkerElapsed(i)
    \/ WorkerTimer(i)
    \/ WorkerCommit(i)
    \/ WorkerClear(i)
    \/ WorkerCalc(i)
    \/ \E ok \in BOOLEAN : WorkerSend(i, ok)
    \/ \E resp \in PlayRespSet : WorkerRecv(i, resp)
    \/ WorkerRecvFault(i)

NextPlay ==
    \/ \E call \in PlayCalls : play(call.name, call.adapter, call.onchange, call.wait)
    \/ PlayClearData
    \/ PlayClearStart
    \/ PlayLaunch
    \/ JoinReturn
    \/ JoinInterrupted
    \/ JoinAfterInterrupt
    \/ \E step_data \in PlayStepSet : play_step(step_data)
    \/ PlayStepStart
    \/ stop
    \/ mode_stop
    \/ ModeStopClearData
    \/ ModeStopClearStart
    \/ \E ok \in BOOLEAN : CallerWrite(ok)
    \/ \E resp \in PlayRespSet : CallerRead(resp)
    \/ CallerReadFault
    \/ Tick
    \/ \E i \in 1..MaxSessions : WorkerNext(i)

SpecPlay == InitPlay /\ [][NextPlay]_vars

-----------------------------------------------------------------------------
(* Properties of the play engine *)

PlayReturned(op) == cpc = "idle" /\ cop.name = op

\* C5: a transport fault is fatal to the operation it happens in: whenever a caller
\* operation's own exchange faulted the caller got USBError, and whenever play(wait=True)
\* has returned after its playing thread ended with a USBError on a play-set-channels
\* exchange, what the caller got is not the success value True.
C5_TransportFaultIsFatal ==
    /\ (cpc = "idle" /\ cop.faulted) => cres = "USBError"
    /\ (PlayReturned("play") /\ cop.wait /\ cres # "AssertionError" /\ wk # <<>>
          /\ wk[Len(wk)].exc = "USBError")
       => cres # "True"

\* C9: a call of play made while a session is running (in_play set) ends at once with
\* AssertionError: that step puts no frame on the endpoints, starts no thread and
\* leaves in_play, the pending target and its start timestamp as they were.
C9_StartWhileRunningRejected ==
    [][(cpc = "idle" /\ in_play /\ calls' = calls + 1 /\ cop'.name = "play")
          => /\ cpc' = "idle"
             /\ cres' = "AssertionError"
             /\ sent' = sent
             /\ wk' = wk
             /\ in_play' = in_play
             /\ play_step_data' = play_step_data
             /\ play_step_start' = play_step_start]_vars

\* a second play with a good name has been refused while the first one's thread runs
C9_Witness ==
    /\ PlayReturned("play")
    /\ cres = "AssertionError"
    /\ Len(cop.mname) \in 1..8
    /\ in_play
    /\ Len(wk) = 1
    /\ ~Finished(wk[1])
    /\ Len(sent) = 1

\* C10: a playing thread that was running when stop() was called ends without an
\* exception of its own (none at all, or the transport's USBError) and writes at most
\* one more play-set-channels frame after the call.
C10_StopEndsWorkerCleanly ==
    \A i \in DOMAIN wk :
        wk[i].stopped => /\ wk[i].exc \in {NoExc, "USBError"}
                         /\ wk[i].late <= 1

-----------------------------------------------------------------------------
(* A play run on a device that answers every exchange.  The log keeps the exchanges
   in flight and the latest completed ones; the clock is followed while a target is
   pending and its time has not run out, which is when the program reads it. *)

\* The steps the step source of a run serves: a jump step of no duration, then a fade
RunSteps == << <<0, 0, -51, 0, 0, 0>>, <<3, 100, -51, 1, 3, 0>> >>

\* play(wait=True): the caller is inside the call for as long as the thread runs
WaitCalls == { PlayCall(<<80>>, ListAdapter(RunSteps), TRUE, TRUE) }

\* play(wait=False): the caller is free to make calls while the thread runs
RunCalls == { PlayCall(<<80>>, ListAdapter(RunSteps), TRUE, FALSE) }

\* an exchange that is over: answered, faulted, or one that awaits no response
Completed(x) == x.read \/ x.fault # "none" \/ x.res # "none"

\* the oldest exchange leaves the log once it is over
Forget ==
    /\ sent # <<>>
    /\ Completed(sent[1])
    /\ sent' = Tail(sent)
    /\ UNCHANGED <<callerVars, openVars, playVars>>

\* the host clock advances while a pending target's time is running
RunTick ==
    /\ play_step_data # None
    /\ play_step_start # None
    /\ now - play_step_start[1] < play_step_data[1]
    /\ now' = now + 1
    /\ UNCHANGED <<in_play, play_step_data, play_step_start, wk, calls,
                   chanVars, callerVars, openVars>>

\* the steps of playing thread i when the device answers
RunWorker(i) ==
    \/ WorkerLoop(i)
    \/ WorkerFetch(i)
    \/ WorkerPlayStep(i)
    \/ WorkerPlayStepStart(i)
    \/ WorkerHas(i)
    \/ WorkerElapsed(i)
    \/ WorkerTimer(i)
    \/ WorkerCommit(i)
    \/ WorkerClear(i)
    \/ WorkerCalc(i)
    \/ WorkerSend(i, TRUE)
    \/ \E resp \in PlayRespSet : WorkerRecv(i, resp)

\* the steps of the caller inside play, when the device answers
WaitCaller ==
    \/ PlayClearData
    \/ PlayClearStart
    \/ PlayLaunch
    \/ JoinReturn
    \/ CallerWrite(TRUE)
    \/ \E resp \in PlayRespSet : CallerRead(resp)

\* play(wait=True) and nothing else: a run from its start to the end of its thread
NextWait ==
    \/ \E call \in WaitCalls : play(call.name, call.adapter, call.onchange, call.wait)
    \/ WaitCaller
    \/ \E i \in 1..MaxSessions : RunWorker(i)
    \/ Forget
    \/ RunTick

SpecWait == InitPlay /\ [][NextWait]_vars

\* play(wait=False) and mode_stop: the caller acts while the thread runs
NextRun ==
    \/ \E call \in RunCalls : play(call.name, call.adapter, call.onchange, call.wait)
    \/ mode_stop
    \/ PlayClearData
    \/ PlayClearStart
    \/ PlayLaunch
    \/ ModeStopClearData
    \/ ModeStopClearStart
    \/ CallerWrite(TRUE)
    \/ \E resp \in PlayRespSet : CallerRead(resp)
    \/ \E i \in 1..MaxSessions : RunWorker(i)
    \/ Forget
    \/ RunTick

SpecRun == InitPlay /\ [][NextRun]_vars

\* ENABLED of RunWorker(i) and of WaitCaller, written out: a thread that has not ended
\* has a next step (its write once the log has room), and so has a caller inside a call
\* (the launch when a thread may be started, the join once the thread has ended)
WorkerReady(i) ==
    /\ i \in DOMAIN wk
    /\ ~Finished(wk[i])
    /\ wk[i].pc = "send" => Len(sent) < MaxFrames

CallerReady ==
    \/ cpc \in {"write", "read", "play_data", "play_start"}
    \/ cpc = "play_launch" /\ Len(wk) < MaxSessions
    \/ cpc = "join" /\ Finished(wk[Len(wk)])

\* Threads are scheduled, blocked calls go on, the device answers, time passes: weak
\* fairness of RunWorker(i), of WaitCaller, of Forget and of RunTick.  A step that changes
\* thread i's record is a step of RunWorker(i), and one that changes the caller's state
\* inside a call is a step of WaitCaller.
FairWait ==
    /\ SpecWait
    /\ \A i \in 1..MaxSessions :
          \/ []<>(~WorkerReady(i))
          \/ []<><<WorkerReady(i) /\ wk'[i] # wk[i]>>_vars
    /\ \/ []<>(~CallerReady)
       \/ []<><<CallerReady /\ callerVars' # callerVars>>_vars
    /\ WF_vars(Forget)
    /\ WF_vars(RunTick)

-----------------------------------------------------------------------------
(* Properties of a play run *)

\* C11: once play(wait=True) with a finite step source waits for its thread on a device
\* that answers, it eventually returns True with the thread ended by the source's None;
\* a thread that ended that way carries no exception and writes no frame afterwards.
C11_SourceExhaustedReturns ==
    /\ (cpc = "join" /\ Len(wk) = 1)
          ~> (PlayReturned("play") /\ cres = "True" /\ wk[1].pc = "done")
    /\ [][\A i \in DOMAIN wk :
             wk[i].pc = "done"
                => /\ wk'[i] = wk[i]
                   /\ wk[i].exc = NoExc
                   /\ \A k \in DOMAIN sent' :
                         sent'[k].by = i => \E j \in DOMAIN sent : sent[j] = sent'[k]]_vars

\* play(wait=True) has returned True after both steps were played and the source said None
C11_Witness ==
    /\ PlayReturned("play")
    /\ cop.wait
    /\ cres = "True"
    /\ Len(wk) = 1
    /\ wk[1].pc = "done"
    /\ wk[1].idx = Len(RunSteps)

\* C12: once every playing thread has ended and the caller is outside any call, the
\* session is idle again: in_play is false (so that play is accepted and play_step refused).
C12_SessionEndsIdle ==
    (cpc = "idle" /\ wk # <<>> /\ \A i \in DOMAIN wk : Finished(wk[i])) => ~in_play

\* C13: every iteration of a playing thread writes one play-set-channels frame: a thread
\* comes back to the top of its loop only from the response read of the frame it wrote
\* in that iteration, also when no step target was pending.
C13_FramePerIteration ==
    [][\A i \in DOMAIN wk :
          (wk[i].pc # "loop" /\ wk'[i].pc = "loop") => wk[i].pc = "recv"]_vars

\* C14: onchange_callback is called in an iteration only when the current channel values
\* differ from those of the iteration before (the ones it was last called with).
C14_OnChangeOnlyOnChange ==
    [][\A i \in DOMAIN wk :
          (wk[i].pc = "send" /\ wk'[i].pc # "send" /\ wk[i].onchange /\ wk[i].shown # None)
             => CurValues(wk[i]) # wk[i].shown.values]_vars

\* v is an integer nearest to num / den (den > 0)
Nearest(v, num, den) == 2 * Abs(v * den - num) <= den

\* the values a thread hands to onchange_callback and to PlaySetChannels at its write
Displayed(w) == CurValues(w)

\* the channel bytes of the play-set-channels frame the thread writes
Transmitted(w) == SubSeq(Finalize(PlaySetChannels(CurValues(w))).payload, 7, 11)

C16_JumpShownAtOnce ==
    \A i \in DOMAIN wk :
        LET w == wk[i]
        IN (w.pc = "send" /\ w.onchange /\ w.shown = None)
              => \A c \in 1..5 :
                    w.step_data[c + 1] < 0
                       => /\ Displayed(w)[c] = Abs(w.step_data[c + 1]) - 1
                          /\ Transmitted(w)[c] = Abs(w.step_data[c + 1]) - 1

\* C17: every channel value a session holds is in 0..100: the committed baseline, the
\* values handed to onchange_callback and those put into the play-set-channels frame.
C17_ValuesInRange ==
    \A i \in DOMAIN wk :
        LET w == wk[i]
        IN \A c \in 1..5 :
              /\ w.last[c] \in 0..100
              /\ CurValues(w)[c] \in 0..100
              /\ w.shown # None => w.shown.values[c] \in 0..100
              /\ w.pc = "send" => Transmitted(w)[c] \in 0..100

\* C18: while play(wait=False), play_step, stop and mode_stop interleave with the thread, the
\* caller and the thread never both have a frame written whose response is still to be read.
C18_OneExchangeAtATime ==
    ~ /\ cpc = "read"
      /\ \E i \in DOMAIN wk : wk[i].pc = "recv"

-----------------------------------------------------------------------------
(* A packet under construction: writes, the final call, the accessors of the result *)

MaxWrites == 3

\* the command codes a packet is made with
CodecCommands == {CmdGeneric, CmdPlaySetChannels}

\* n bytes 9, 10, ...
Block(n) == [k \in 1..n |-> 8 + k]

\* the byte strings written through the pointer: 28 + 28 fills the 56 data bytes
CursorData == { <<7>>, <<200, 100>>, Block(28), Block(29) }

\* the byte strings and the offsets of the writes at a position
PositionedData == { <<7>>, <<200, 100>> }
PositionSet == { 5, 60, -3, -65 }

\* what the caller has done to the packet so far
Built(cmd, written, positioned) ==
    [command |-> cmd, written |-> written, positioned |-> positioned, count |-> 0, decoded |-> None,
     last |-> None]

\* p.magic, p.command, p.data_len, p.data, p.checksum read one after the other, and the
\* packet after the five reads
Decode(p) ==
    LET p1 == get_string(p, At(0), 2).pkt
        p2 == get_string(p1, At(2), 1).pkt
        p3 == get_string(p2, At(3), 2).pkt
        p4 == get_string(p3, At(5), data_len(p3)).pkt
        p5 == get_string(p4, At(-3), 1).pkt
    IN [ magic |-> magic(p), command |-> command(p1), data_len |-> data_len(p2),
         data |-> data(p3).val, checksum |-> checksum(p4), after |-> p5 ]

InitCodec ==
    /\ \E cmd \in CodecCommands :
          /\ cpkt = NewPacket(cmd)
          /\ cop = Built(cmd, <<>>, FALSE)
    /\ cpc = "build"
    /\ cres = None
    /\ sent = <<>>
    /\ InitOpenIdle
    /\ InitPlayIdle

\* add_string(d): a write at the pointer
CursorWrite(d) ==
    /\ cpc = "build"
    /\ cpkt.exc = NoExc
    /\ cop.count < MaxWrites
    /\ cpkt' = add_string(cpkt, d, None)
    /\ cop' = [cop EXCEPT !.written = @ \o d, !.count = @ + 1,
                           !.last = At([d |-> d, position |-> None])]
    /\ UNCHANGED <<cpc, cres, chanVars, openVars, playVars>>

\* add_string(d, position)
PositionedWrite(d, position) ==
    /\ cpc = "build"
    /\ cpkt.exc = NoExc
    /\ cop.count < MaxWrites
    /\ cpkt' = add_string(cpkt, d, At(position))
    /\ cop' = [cop EXCEPT !.positioned = TRUE, !.count = @ + 1,
                           !.last = At([d |-> d, position |-> At(position)])]
    /\ UNCHANGED <<cpc, cres, chanVars, openVars, playVars>>

\* packet(): set_data_len, set_checksum, bytes(self.payload)
Call ==
    /\ cpc = "build"
    /\ cpkt.exc = NoExc
    /\ cpkt' = Finalize(cpkt)
    /\ cpc' = IF cpkt'.exc = NoExc THEN "final" ELSE "fault"
    /\ cres' = IF cpkt'.exc = NoExc THEN At(cpkt'.payload) ELSE None
    /\ UNCHANGED <<cop, chanVars, openVars, playVars>>

\* TC420Packet(payload=frame) and its accessors
Accessors ==
    /\ cpc = "final"
    /\ cpkt' = Decode(PacketOf(cres[1])).after
    /\ cop' = [cop EXCEPT !.decoded = At(Decode(PacketOf(cres[1])))]
    /\ cpc' = "decoded"
    /\ UNCHANGED <<cres, chanVars, openVars, playVars>>

NextCodec ==
    \/ \E d \in CursorData : CursorWrite(d)
    \/ \E d \in PositionedData, position \in PositionSet : PositionedWrite(d, position)
    \/ Call
    \/ Accessors

SpecCodec == InitCodec /\ [][NextCodec]_vars

-----------------------------------------------------------------------------
(* Properties of the frame codec *)

\* C19: in every frame returned by the final call, whatever writes at the pointer and at
\* positions came before, byte 61 is the sum of bytes 0..60 modulo 256, and bytes 3..4 hold
\* the data length (the pointer less 5) written by the same call.
C19_ChecksumOfFinalFrame ==
    cpc = "final"
       => LET frame == cres[1]
          IN /\ frame[62] = ChecksumFold(SubSeq(frame, 1, 61), 0)
             /\ frame[4] * 256 + frame[5] = cpkt.pointer - 5

\* C20: for every command and 0..56 bytes written at the pointer only, the final call
\* succeeds, and the accessors of the 64 byte frame give the magic 0x55 0xAA, the command,
\* the number of bytes written as data_len and the bytes written as data; after the reads
\* the packet has the same bytes and the same pointer as before them.
C20_RoundTrip ==
    /\ (cpc = "fault" /\ ~cop.positioned) => Len(cop.written) > 56
    /\ (cpc = "decoded" /\ ~cop.positioned)
          => LET dec == cop.decoded[1]
             IN /\ Len(cop.written) <= 56
                /\ Len(cres[1]) = 64
                /\ dec.magic = <<MagicHi, MagicLo>>
                /\ dec.command = cop.command
                /\ dec.data_len = Len(cop.written)
                /\ dec.data = cop.written
                /\ dec.after = PacketOf(cres[1])

\* the full 56 data bytes, written at the pointer in two halves, have been read back
C20_Witness ==
    /\ cpc = "decoded"
    /\ ~cop.positioned
    /\ cop.written = Block(28) \o Block(28)
    /\ cop.decoded[1].data_len = 56
    /\ cop.command = CmdPlaySetChannels

\* the bytes d are in payload at the absolute offsets at .. at + Len(d) - 1
LandsAt(payload, d, at) == SubSeq(payload, at + 1, at + Len(d)) = d

\* C21: a write without a position puts its k bytes where the pointer stood after the
\* writes before it and moves the pointer on by exactly k; a write at a position leaves
\* the pointer where it was, and one at offset -3 puts its byte at absolute offset 61
\* wherever the pointer stands.
C21_CursorDiscipline ==
    [][ (cpc = "build" /\ cop'.count = cop.count + 1)
           => LET w == cop'.last[1]
                  k == Len(w.d)
              IN IF w.position = None
                 THEN /\ cpkt'.pointer = cpkt.pointer + k
                      /\ cpkt.pointer = 5 + Len(cop.written)
                      /\ cpkt'.exc = NoExc => LandsAt(cpkt'.payload, w.d, cpkt.pointer)
                 ELSE /\ cpkt'.pointer = cpkt.pointer
                      /\ (w.position = At(-3) /\ cpkt'.exc = NoExc)
                            => LandsAt(cpkt'.payload, w.d, 61) ]_vars

\* after two bytes at the pointer and a write at a position, a byte written at offset -3:
\* the pointer is still at 7
C21_Witness ==
    /\ cpc = "build"
    /\ cpkt.exc = NoExc
    /\ cop.written = <<200, 100>>
    /\ cop.count = 3
    /\ cop.last = At([d |-> <<7>>, position |-> At(-3)])
    /\ cpkt.pointer = 7
    /\ cpkt.payload[62] = 7

\* C27: after writes that all went through, at any offsets, the payload is still 64 bytes
\* and ends with 0x0D 0x0A.
C27_FrameKeepsItsLength ==
    (cpc = "build" /\ cpkt.exc = NoExc)
       => /\ Len(cpkt.payload) = 64
          /\ SubSeq(cpkt.payload, 63, 64) = <<TermCR, TermLF>>

-----------------------------------------------------------------------------
(* A mode step on its own: from the step to its frame *)

\* the channel codes of a mode step
ChannelCodes == -101..100

\* the steps built: every code on every channel beside fixed others, and every mix of
\* fades and jumps over the five channels
StepTimes == { [hour |-> 0, minute |-> 0], [hour |-> 23, minute |-> 59] }
StepChannels ==
    { [i \in 1..5 |-> IF i = ch THEN c ELSE 50] : ch \in 1..5, c \in ChannelCodes }
       \cup [1..5 -> {-101, -1, 0, 100}]
       \cup { <<100, -1, -101, 50, -51>> }

InitStep ==
    /\ \E t \in StepTimes, chs \in StepChannels :
          cop = [step |-> <<t>> \o chs]
    /\ cpc = "step"
    /\ cpkt = None
    /\ cres = None
    /\ sent = <<>>
    /\ InitOpenIdle
    /\ InitPlayIdle

\* ModeStepPacket(step_data)(): the frame of the step
BuildModeStep ==
    /\ cpc = "step"
    /\ cpkt' = Finalize(ModeStepPacket(cop.step))
    /\ cres' = IF cpkt'.exc = NoExc THEN At(cpkt'.payload) ELSE None
    /\ cpc' = IF cpkt'.exc = NoExc THEN "built" ELSE "fault"
    /\ UNCHANGED <<cop, chanVars, openVars, playVars>>

NextStep == BuildModeStep

SpecStep == InitStep /\ [][NextStep]_vars

\* bit b (from 0) of the byte v
Bit(v, b) == (v \div (2 ^ b)) % 2

\* C22: for every mode step with channel codes in -101..100 the frame is built, and for
\* each channel i (1..5) its byte is c for a code c >= 0 and abs(c) - 1 for c < 0, hence in
\* 0..100, and its bit of the jump-flag byte after the channels (bit i - 1, the lowest for
\* channel 1) is set exactly when c < 0; the other bits of that byte are clear.
C22_ModeStepEncoding ==
    /\ cpc # "fault"
    /\ cpc = "built"
          => LET frame == cres[1]
                 flags == frame[13]
             IN /\ frame[6] = cop.step[1].hour
                /\ frame[7] = cop.step[1].minute
                /\ \A i \in 1..5 :
                      LET c == cop.step[i + 1]
                      IN /\ frame[7 + i] = (IF c >= 0 THEN c ELSE Abs(c) - 1)
                         /\ frame[7 + i] \in 0..100
                         /\ Bit(flags, i - 1) = (IF c < 0 THEN 1 ELSE 0)
                /\ flags < 32

\* the frame of the step 23:59, 100, -1, -101, 50, -51: bytes 100, 0, 100, 50, 50, flags 10110
C22_Witness ==
    /\ cpc = "built"
    /\ cop.step = <<[hour |-> 23, minute |-> 59], 100, -1, -101, 50, -51>>
    /\ SubSeq(cres[1], 6, 13) = <<23, 59, 100, 0, 100, 50, 50, 22>>

-----------------------------------------------------------------------------
(* Properties of the play engine, continued *)

\* the command byte of a frame that was written
FrameCommand(frame) == frame[3]

\* the play-init exchanges that the device acknowledged as success
AckedPlayInits ==
    { k \in 1..Len(sent) : /\ sent[k].by = Caller
                           /\ FrameCommand(sent[k].frame) = CmdPlayInit
                           /\ sent[k].res = "True" }

\* C23: when the answer to play's play-init frame is not the success acknowledgment (a
\* different answer, or none), play ends with an exception, in_play is false and in_play,
\* the pending target, its start timestamp and the threads are as before; as long as no
\* play-init was acknowledged there is no thread, no pending target and no
\* play-set-channels frame on the endpoints.
C23_NackedPlayInitStaysIdle ==
    /\ [][ (cpc = "read" /\ cop.name = "play" /\ cpc' # "read"
              /\ sent'[InFlight(Caller)].res # "True")
             => /\ cpc' = "idle"
                /\ cres' \in {"AssertionError", "USBError"}
                /\ ~in_play'
                /\ UNCHANGED <<in_play, play_step_data, play_step_start, wk>> ]_vars
    /\ [](AckedPlayInits = {}
             => /\ wk = <<>>
                /\ ~in_play
                /\ play_step_data = None
                /\ cpc \notin {"play_data", "play_start", "play_launch", "join"}
                /\ \A k \in 1..Len(sent) :
                      FrameCommand(sent[k].frame) # CmdPlaySetChannels)

\* play has ended with AssertionError on an answer that was not the acknowledgment
C23_Witness ==
    /\ PlayReturned("play")
    /\ cres = "AssertionError"
    /\ sent # <<>>
    /\ sent[Len(sent)].by = Caller
    /\ FrameCommand(sent[Len(sent)].frame) = CmdPlayInit
    /\ sent[Len(sent)].res = "False"
    /\ wk = <<>>

\* C24: a thread fed by an adapter calls it with the indices 0, 1, 2, ... in this order,
\* none left out and none twice: each call is made with the index after the one of the
\* call before, and so only after the step of that call was committed (idx counts the
\* steps committed and never goes down).
C24_SourceIndicesInOrder ==
    [][ \A i \in DOMAIN wk :
           /\ wk'[i].idx >= wk[i].idx
           /\ (wk[i].pc = "fetch" /\ wk'[i].pc \in {"play_step", "done"})
                 => wk[i].idx = wk[i].asked + 1 ]_vars

-----------------------------------------------------------------------------
(* A session stopped and the next one started: play(wait=False), stop(), play(wait=False) *)

MaxRestartCalls == 4
MaxRestartSessions == 2

\* the sessions have no adapter; the caller gives one step of no duration
RestartCalls == { PlayCall(<<80>>, NoAdapter, FALSE, FALSE) }
RestartSteps == { <<0, 100, 0, 0, 0, 0>> }

\* the steps of playing thread i in such a session, when the device acknowledges
RestartWorker(i) ==
    \/ WorkerLoop(i)
    \/ WorkerFetch(i)
    \/ WorkerHas(i)
    \/ WorkerElapsed(i)
    \/ WorkerTimer(i)
    \/ WorkerCommit(i)
    \/ WorkerClear(i)
    \/ WorkerSend(i, TRUE)
    \/ WorkerRecv(i, AckFrame)

NextRestart ==
    \/ \E call \in RestartCalls :
          PlayWithin(MaxRestartCalls, call.name, call.adapter, call.onchange, call.wait)
    \/ StopWithin(MaxRestartCalls)
    \/ \E step_data \in RestartSteps : PlayStepWithin(MaxRestartCalls, step_data)
    \/ PlayStepStart
    \/ PlayClearData
    \/ PlayClearStart
    \/ LaunchWithin(MaxRestartSessions)
    \/ CallerWrite(TRUE)
    \/ CallerRead(AckFrame)
    \/ \E i \in 1..MaxRestartSessions : RestartWorker(i)
    \/ Forget

SpecRestart == InitPlay /\ [][NextRestart]_vars

\* C25: a thread of an earlier session does not go on beside the thread of a later one:
\* once a later thread has been started, the earlier thread's next test of
\* `while self._in_play` ends it.
C25_OneWorkerAlive ==
    [][ \A i \in DOMAIN wk :
           (i < Len(wk) /\ wk[i].pc = "loop" /\ wk'[i] # wk[i])
              => wk'[i].pc = "done" ]_vars

\* C26: whatever way play_step and mode_stop of the caller interleave with an iteration of
\* the thread, where the thread reads the start timestamp (line 473) the target and its
\* timestamp are both set, where it reads the target (lines 476-490) the target is still
\* set, and so no read of them ends the thread with a TypeError or a ZeroDivisionError.
C26_SharedTargetIsSafe ==
    \A i \in DOMAIN wk :
        /\ wk[i].pc = "elapsed" => (play_step_data # None /\ play_step_start # None)
        /\ wk[i].pc \in {"timer", "commit", "calc"} => play_step_data # None
        /\ wk[i].exc \notin {"TypeError", "ZeroDivisionError"}

====
